---- MODULE Spec2Model ----
(***************************************************************************)
(* Credential lifecycle of freeagent-mcp (src/src/auth.ts): the token      *)
(* store, the single-flight access-token refresh of getValidAccessToken    *)
(* and the interactive authorization session of runAuthFlow.               *)
(*                                                                         *)
(* JavaScript runs handlers to completion: every action below is the       *)
(* synchronous stretch of code between two suspension points (an await, a  *)
(* timer, an I/O event).                                                   *)
(***************************************************************************)
EXTENDS Integers, Sequences, FiniteSets, TLC

\* ------------------------------------------------------------------ bounds
MaxCalls == 3        \* getValidAccessToken calls made in one behaviour
MaxRefresh == 2      \* refresh HTTP calls the provider answers
MaxRequests == 2     \* FreeAgentClient.request calls made in one behaviour
MaxTicks == 1        \* clock advances

\* ------------------------------------------------------- program constants
TOKEN_BUFFER_MS == 60000
AUTH_TIMEOUT_MS == 120000

\* ----------------------------------------------------------------- values
\* A string-valued field that is absent reads as `undefined` in JavaScript.
UNDEF == <<"undefined", 0>>
Tok(name, n) == <<name, n>>

\* Number-valued fields: a number, undefined, NaN or (after JSON) null.
Num(n) == [t |-> "num", n |-> n]
NumUndef == [t |-> "undefined", n |-> 0]
NumNaN == [t |-> "nan", n |-> 0]
NumNull == [t |-> "null", n |-> 0]

\* The value of `tokens` in getValidAccessToken: what JSON.parse gave, seen
\* through the three property reads the code makes.  truthy is !!tokens.
NullTokens ==
  [truthy |-> FALSE, access_token |-> UNDEF, refresh_token |-> UNDEF,
   expires_at |-> NumUndef]
Tokens(a, r, e) ==
  [truthy |-> TRUE, access_token |-> a, refresh_token |-> r, expires_at |-> e]

\* Content of TOKEN_FILE.  kind "missing": readFileSync throws; "empty" and
\* "invalid": JSON.parse throws; "json": a JSON text.  A JSON text is the
\* literal null, a non-object truthy literal ("scalar", e.g. 5) or an object
\* whose three keys are each absent or carry a literal.
KeyAbsent == <<"absent", 0>>
LitAbsent == [t |-> "absent", n |-> 0]
LitNull == [t |-> "null", n |-> 0]
LitNum(n) == [t |-> "num", n |-> n]
NoJson ==
  [type |-> "none", access_token |-> KeyAbsent, refresh_token |-> KeyAbsent,
   expires_at |-> LitAbsent]
JsonNull == [NoJson EXCEPT !.type = "null"]
JsonScalar == [NoJson EXCEPT !.type = "scalar"]
JsonObject(a, r, e) ==
  [type |-> "object", access_token |-> a, refresh_token |-> r, expires_at |-> e]
FileMissing == [kind |-> "missing", json |-> NoJson]
FileEmpty == [kind |-> "empty", json |-> NoJson]
FileInvalid == [kind |-> "invalid", json |-> NoJson]
FileJson(j) == [kind |-> "json", json |-> j]

\* JSON.stringify(tokens, null, 2): a key whose value is undefined is
\* dropped, NaN is written as null.
JSONstringify(tokens) ==
  JsonObject(
    IF tokens.access_token = UNDEF THEN KeyAbsent ELSE tokens.access_token,
    IF tokens.refresh_token = UNDEF THEN KeyAbsent ELSE tokens.refresh_token,
    CASE tokens.expires_at.t = "num" -> LitNum(tokens.expires_at.n)
      [] tokens.expires_at.t = "undefined" -> LitAbsent
      [] OTHER -> LitNull)

\* JSON.parse(data) as StoredTokens: no validation, a cast only.
JSONparse(j) ==
  CASE j.type = "null" -> NullTokens
    [] j.type = "scalar" -> Tokens(UNDEF, UNDEF, NumUndef)
    [] OTHER ->
         Tokens(
           IF j.access_token = KeyAbsent THEN UNDEF ELSE j.access_token,
           IF j.refresh_token = KeyAbsent THEN UNDEF ELSE j.refresh_token,
           CASE j.expires_at.t = "num" -> Num(j.expires_at.n)
             [] j.expires_at.t = "null" -> NumNull
             [] OTHER -> NumUndef)

\* loadTokens with a default: `JSON.parse(data || "{}")` and `return {}` in
\* the catch.
loadTokens_DefaultObject(f) ==
  IF f.kind = "json" THEN JSONparse(f.json) ELSE Tokens(UNDEF, UNDEF, NumUndef)

\* loadTokens(): null on any throw of readFileSync or JSON.parse.
loadTokens(f) ==
  IF f.kind = "json" THEN JSONparse(f.json) ELSE NullTokens

\* isTokenExpired with > in the place of >=.
isTokenExpired_Strict(tokens, t) ==
  CASE tokens.expires_at.t = "num" -> t > tokens.expires_at.n - TOKEN_BUFFER_MS
    [] tokens.expires_at.t = "null" -> t > 0 - TOKEN_BUFFER_MS
    [] OTHER -> FALSE

\* isTokenExpired(tokens) at Date.now() = t.  undefined - 60000 and
\* NaN - 60000 are NaN and every comparison with NaN is false;
\* null - 60000 is -60000.
isTokenExpired(tokens, t) ==
  CASE tokens.expires_at.t = "num" -> t >= tokens.expires_at.n - TOKEN_BUFFER_MS
    [] tokens.expires_at.t = "null" -> t >= 0 - TOKEN_BUFFER_MS
    [] OTHER -> FALSE

\* A record of the three fields, all populated (the StoredCredential of the
\* data model).
IsFullCredential(tokens) ==
  /\ tokens.truthy
  /\ tokens.access_token # UNDEF
  /\ tokens.refresh_token # UNDEF
  /\ tokens.expires_at.t = "num"


\* saveTokens(tokens) on file f.  mkdirSync and writeFileSync are not
\* guarded: "mkdir" is a throw before the file is opened (file unchanged),
\* "write" a throw after writeFileSync opened the file with truncation.
\* Only the chmodSync failure is swallowed (it is part of "ok").
SaveOutcomes == {"ok", "mkdir", "write"}
saveThrows(outcome) == outcome # "ok"
\* saveTokens that writes the access token and its expiry only.
saveTokens_AccessOnly(f, tokens, outcome) ==
  CASE outcome = "ok" ->
         FileJson(JSONstringify([tokens EXCEPT !.refresh_token = UNDEF]))
    [] outcome = "mkdir" -> f
    [] OTHER -> FileEmpty

saveTokens(f, tokens, outcome) ==
  CASE outcome = "ok" -> FileJson(JSONstringify(tokens))
    [] outcome = "mkdir" -> f
    [] OTHER -> FileEmpty

\* --------------------------------------------------------------- messages
ErrNoTokens == "No stored tokens found"
ErrRefresh == "Token refresh failed"
ErrExchange == "Token exchange failed"
ErrSave == "saveTokens threw"
ErrTimeout == "Authentication timed out after 120 seconds"
ErrNotUrl == "Not a valid URL"
ErrOAuth == "OAuth error"
ErrNoCode == "No authorization code found in URL"
ErrState == "State mismatch"

\* ------------------------------------------------------------------ state
VARIABLES
  file,            \* content of TOKEN_FILE
  now,             \* Date.now()
  ticks,           \* clock advances so far
  writes,          \* writeFileSync calls that replaced the file content
  refreshPromise,  \* module variable of auth.ts: 0 is null, else a promise
  promises,        \* the promises returned by refreshAccessToken, by id
  calls,           \* the getValidAccessToken calls, in order of invocation
  sessions,        \* runAuthFlow calls so far
  state,           \* the session's random state
  settled,         \* runAuthFlow: let settled
  httpServer,      \* runAuthFlow: let httpServer
  rl,              \* runAuthFlow: let rl
  timeout,         \* runAuthFlow: const timeout (the timer)
  deadline,        \* when the timer is due
  exchanges,       \* exchangeCodeForTokens calls: code and fetch status
  authPromise,     \* the promise runAuthFlow returned
  lastResponse,    \* status of the listener's last HTTP response, 0 if none
  lastEvent,       \* the last request or line handled: channel and input
  env,             \* process.env as index.ts reads it
  config,          \* index.ts: the OAuthConfig built, if any
  client,          \* index.ts: let client
  requests,        \* FreeAgentClient.request calls, in order of invocation
  providerCalls,   \* invocations of the client's token provider
  fetches          \* HTTP requests the client has sent

supVars == <<refreshPromise, promises, calls>>
sessVars ==
  <<sessions, state, settled, httpServer, rl, timeout, deadline, exchanges,
    authPromise, lastResponse, lastEvent>>
cliVars == <<env, config, client, requests, providerCalls, fetches>>
vars == <<file, now, ticks, writes, supVars, sessVars, cliVars>>

\* ------------------------------------------- configuration and client
\* A variable of process.env that is not set reads as undefined.
Unset == "<unset>"
\* `x || y` and `if (x)` on a string or undefined.
Falsy(s) == s = Unset \/ s = ""

\* The environments a server process is started in.
Envs ==
  [FREEAGENT_SANDBOX : {Unset, "true", "false", "1"},
   FREEAGENT_BASE_URL : {Unset, "https://example.test/v2"},
   FREEAGENT_ACCESS_TOKEN : {Unset, "legacy-token"},
   FREEAGENT_CLIENT_ID : {Unset, "id"},
   FREEAGENT_CLIENT_SECRET : {"secret"}]
\* The environment of the README's setup: the OAuth credentials only.
OAuthEnv ==
  [FREEAGENT_SANDBOX |-> Unset, FREEAGENT_BASE_URL |-> Unset,
   FREEAGENT_ACCESS_TOKEN |-> Unset, FREEAGENT_CLIENT_ID |-> "id",
   FREEAGENT_CLIENT_SECRET |-> "secret"]

\* index.ts line 26.
FREEAGENT_SANDBOX(e) == e.FREEAGENT_SANDBOX # "false"

\* buildOAuthConfig(), index.ts 29-38; isNull stands for the null it
\* returns without both credentials.
NoConfig == [isNull |-> TRUE, sandbox |-> FALSE]
buildOAuthConfig(e) ==
  IF ~Falsy(e.FREEAGENT_CLIENT_ID) /\ ~Falsy(e.FREEAGENT_CLIENT_SECRET)
  THEN [isNull |-> FALSE, sandbox |-> FREEAGENT_SANDBOX(e)]
  ELSE NoConfig

\* getApiBase(sandbox), auth.ts 27-31.
getApiBase(sandbox) ==
  IF sandbox THEN "https://api.sandbox.freeagent.com/v2"
  ELSE "https://api.freeagent.com/v2"

\* client.ts line 1 as the test of client.test.ts 68-75 expects it.
DEFAULT_BASE_URL_Sandbox == "https://api.sandbox.freeagent.com/v2"

\* client.ts line 1.
DEFAULT_BASE_URL == "https://api.freeagent.com/v2"

\* new FreeAgentClient(tokenOrProvider, baseUrl), client.ts 38-47.  A
\* provider is "static" for a string (wrapped in an async function that
\* returns it) and "function" for a function.
NoClient == [status |-> "none", provider |-> "none", token |-> UNDEF,
             baseUrl |-> Unset]
FreeAgentClient(provider, token, baseUrl) ==
  [status |-> "constructed", provider |-> provider, token |-> token,
   baseUrl |-> IF Falsy(baseUrl) THEN DEFAULT_BASE_URL ELSE baseUrl]

\* The host of a base URL, as new URL(fullPath, base) keeps it.
Host(base) ==
  CASE base = "https://api.sandbox.freeagent.com/v2" -> "api.sandbox.freeagent.com"
    [] base = "https://api.freeagent.com/v2" -> "api.freeagent.com"
    [] OTHER -> "example.test"

\* `Bearer ${accessToken}`, client.ts 108.
Bearer(token) == <<"Bearer ", token>>

ErrProvider == "token provider failed"

ClientIdle ==
  /\ config = NoConfig
  /\ client = NoClient
  /\ requests = <<>>
  /\ providerCalls = <<>>
  /\ fetches = <<>>

\* ------------------------------------------------------------------- Init
T0 == 1000000   \* Date.now() at the start of a behaviour

StoredExpired == Tokens(Tok("access", 0), Tok("refresh", 0), Num(T0 + 60000))
StoredFresh == Tokens(Tok("access", 0), Tok("refresh", 0), Num(T0 + 60001))

\* Contents TOKEN_FILE can have when the process starts: nothing, what an
\* earlier saveTokens wrote, or what something else left there.
InitialFiles ==
  { FileMissing, FileEmpty, FileInvalid,
    FileJson(JsonNull), FileJson(JsonScalar),
    FileJson(JsonObject(KeyAbsent, KeyAbsent, LitAbsent)),
    FileJson(JsonObject(Tok("access", 0), KeyAbsent, LitAbsent)),
    FileJson(JsonObject(KeyAbsent, Tok("refresh", 0), LitNum(T0 + 60000))),
    FileJson(JSONstringify(StoredExpired)),
    FileJson(JSONstringify(StoredFresh)) }

\* No request and no line has been handled yet.  seq tells two deliveries
\* of the same input apart.
NoInput ==
  [isUrl |-> FALSE, blank |-> TRUE, path |-> "none",
   q |-> [error |-> <<"absent", 0>>, code |-> <<"absent", 0>>,
          state |-> <<"absent", 0>>]]
NoEvent == [channel |-> "none", input |-> NoInput, seq |-> 0]
Event(channel, input, prev) ==
  [channel |-> channel, input |-> input, seq |-> 1 - prev.seq]

NoPromise == [resolves |-> 0, rejects |-> 0, status |-> "none", error |-> "none"]

SessionIdle ==
  /\ sessions = 0
  /\ state = Tok("state", 0)
  /\ settled = FALSE
  /\ httpServer = "null"
  /\ rl = "null"
  /\ timeout = "none"
  /\ deadline = 0
  /\ exchanges = <<>>
  /\ authPromise = NoPromise
  /\ lastResponse = 0
  /\ lastEvent = NoEvent

Init ==
  /\ file \in InitialFiles
  /\ now = T0
  /\ ticks = 0
  /\ writes = 0
  /\ refreshPromise = 0
  /\ promises = <<>>
  /\ calls = <<>>
  /\ SessionIdle
  /\ env = OAuthEnv
  /\ ClientIdle


\* ------------------------------------------------ Access Token Supervisor
\* Provider answers to the refresh request: expires_in, in seconds.
ExpiresIn == {60, 3600}

\* refreshAccessToken(config, refreshToken), up to `await fetch`: the
\* request leaves with refreshToken in its body; the promise is pending.
refreshAccessToken(refreshToken) ==
  [status |-> "pending", sent |-> refreshToken, value |-> NullTokens,
   leaderDone |-> FALSE]

\* A getValidAccessToken call that has returned or thrown, or is suspended.
CallRec(pc, role, p, out, token, err, loaded, readHandle) ==
  [pc |-> pc, role |-> role, p |-> p, out |-> out, token |-> token,
   err |-> err, loaded |-> loaded, readHandle |-> readHandle]

Returned(c, token) == [c EXCEPT !.pc = "done", !.out = "token", !.token = token]
Threw(c, err) == [c EXCEPT !.pc = "done", !.out = "error", !.err = err]

\* GetNoTokens on a loadTokens that keeps what the first call read.
GetNoTokens_Cached ==
  LET tokens == IF Len(calls) > 0 THEN calls[1].loaded ELSE loadTokens(file) IN
  /\ ~tokens.truthy
  /\ calls' = Append(calls,
       CallRec("done", "none", 0, "error", UNDEF, ErrNoTokens, tokens, FALSE))
  /\ UNCHANGED <<refreshPromise, promises>>

\* Lines 100-105: no tokens, throw.
GetNoTokens ==
  LET tokens == loadTokens(file) IN
  /\ ~tokens.truthy
  /\ calls' = Append(calls,
       CallRec("done", "none", 0, "error", UNDEF, ErrNoTokens, tokens, FALSE))
  /\ UNCHANGED <<refreshPromise, promises>>

\* GetNotExpired with the handle looked at before the expiry.
GetNotExpired_HandleFirst ==
  LET tokens == loadTokens(file) IN
  /\ tokens.truthy
  /\ ~isTokenExpired(tokens, now)
  /\ calls' = Append(calls,
       IF refreshPromise # 0
       THEN CallRec("awaitShared", "waiter", refreshPromise, "pending", UNDEF,
                    "none", tokens, TRUE)
       ELSE CallRec("done", "none", 0, "token", tokens.access_token, "none",
                    tokens, TRUE))
  /\ UNCHANGED <<refreshPromise, promises>>

\* Lines 107-109: not expired, return the stored access token.
GetNotExpired ==
  LET tokens == loadTokens(file) IN
  /\ tokens.truthy
  /\ ~isTokenExpired(tokens, now)
  /\ calls' = Append(calls,
       CallRec("done", "none", 0, "token", tokens.access_token, "none",
               tokens, FALSE))
  /\ UNCHANGED <<refreshPromise, promises>>

\* Lines 112-113: a refresh is in flight, await its promise.
GetAwaitShared ==
  LET tokens == loadTokens(file) IN
  /\ tokens.truthy
  /\ isTokenExpired(tokens, now)
  /\ refreshPromise # 0
  /\ calls' = Append(calls,
       CallRec("awaitShared", "waiter", refreshPromise, "pending", UNDEF,
               "none", tokens, TRUE))
  /\ UNCHANGED <<refreshPromise, promises>>

\* GetStartRefresh without the test of the handle.
GetStartRefresh_NoHandleCheck ==
  LET tokens == loadTokens(file) IN
  /\ tokens.truthy
  /\ isTokenExpired(tokens, now)
  /\ Len(promises) < MaxRefresh
  /\ promises' = Append(promises, refreshAccessToken(tokens.refresh_token))
  /\ refreshPromise' = Len(promises) + 1
  /\ calls' = Append(calls,
       CallRec("awaitOwn", "leader", Len(promises) + 1, "pending", UNDEF,
               "none", tokens, TRUE))

\* Lines 117-119: start the refresh, install the handle, await it.
GetStartRefresh ==
  LET tokens == loadTokens(file) IN
  /\ tokens.truthy
  /\ isTokenExpired(tokens, now)
  /\ refreshPromise = 0
  /\ Len(promises) < MaxRefresh
  /\ promises' = Append(promises, refreshAccessToken(tokens.refresh_token))
  /\ refreshPromise' = Len(promises) + 1
  /\ calls' = Append(calls,
       CallRec("awaitOwn", "leader", Len(promises) + 1, "pending", UNDEF,
               "none", tokens, TRUE))

\* getValidAccessToken(config) from its invocation to its first await.
getValidAccessToken ==
  /\ Len(calls) < MaxCalls
  /\ \/ GetNoTokens
     \/ GetNotExpired
     \/ GetAwaitShared
     \/ GetStartRefresh
  /\ UNCHANGED <<file, now, ticks, writes, sessVars, cliVars>>

\* refreshAccessToken from the arrival of the HTTP response to its return
\* or throw (lines 77-92): the promise settles.
RefreshResponse(p, ok, expires_in) ==
  /\ p \in 1..Len(promises)
  /\ promises[p].status = "pending"
  /\ promises' = [promises EXCEPT ![p] =
       IF ok
       THEN [@ EXCEPT !.status = "fulfilled",
                      !.value = Tokens(Tok("access", p), Tok("refresh", p),
                                       Num(now + expires_in * 1000))]
       ELSE [@ EXCEPT !.status = "rejected"]]
  /\ UNCHANGED <<file, now, ticks, writes, refreshPromise, calls, sessVars, cliVars>>

\* ResumeOwn with the handle cleared after the return only, not in a finally.
ResumeOwn_ClearOnSuccessOnly(c, outcome) ==
  /\ c \in 1..Len(calls)
  /\ calls[c].pc = "awaitOwn"
  /\ LET p == calls[c].p
         newTokens == promises[p].value
     IN /\ promises[p].status # "pending"
        /\ IF promises[p].status = "fulfilled"
           THEN /\ file' = saveTokens(file, newTokens, outcome)
                /\ writes' = IF outcome = "mkdir" THEN writes ELSE writes + 1
                /\ calls' = [calls EXCEPT ![c] =
                     IF saveThrows(outcome)
                     THEN Threw(@, ErrSave)
                     ELSE Returned(@, newTokens.access_token)]
                /\ refreshPromise' = IF saveThrows(outcome)
                                     THEN refreshPromise ELSE 0
           ELSE /\ outcome = "ok"
                /\ calls' = [calls EXCEPT ![c] = Threw(@, ErrRefresh)]
                /\ UNCHANGED <<file, writes, refreshPromise>>
        /\ promises' = [promises EXCEPT ![p].leaderDone = TRUE]
  /\ UNCHANGED <<now, ticks, sessVars, cliVars>>

\* ResumeOwn that lets the awaiters of the handle run only when the
\* refresh succeeded.
ResumeOwn_NoWakeOnFailure(c, outcome) ==
  /\ c \in 1..Len(calls)
  /\ calls[c].pc = "awaitOwn"
  /\ LET p == calls[c].p
         newTokens == promises[p].value
     IN /\ promises[p].status # "pending"
        /\ IF promises[p].status = "fulfilled"
           THEN /\ file' = saveTokens(file, newTokens, outcome)
                /\ writes' = IF outcome = "mkdir" THEN writes ELSE writes + 1
                /\ calls' = [calls EXCEPT ![c] =
                     IF saveThrows(outcome)
                     THEN Threw(@, ErrSave)
                     ELSE Returned(@, newTokens.access_token)]
                /\ promises' = [promises EXCEPT ![p].leaderDone = TRUE]
           ELSE /\ outcome = "ok"
                /\ calls' = [calls EXCEPT ![c] = Threw(@, ErrRefresh)]
                /\ UNCHANGED <<file, writes, promises>>
  /\ refreshPromise' = 0
  /\ UNCHANGED <<now, ticks, sessVars, cliVars>>

\* Lines 119-124: the call that started the refresh resumes.  Its await was
\* registered first, so it runs before every other awaiter of the promise.
ResumeOwn(c, outcome) ==
  /\ c \in 1..Len(calls)
  /\ calls[c].pc = "awaitOwn"
  /\ LET p == calls[c].p
         newTokens == promises[p].value
     IN /\ promises[p].status # "pending"
        /\ IF promises[p].status = "fulfilled"
           THEN /\ file' = saveTokens(file, newTokens, outcome)
                /\ writes' = IF outcome = "mkdir" THEN writes ELSE writes + 1
                /\ calls' = [calls EXCEPT ![c] =
                     IF saveThrows(outcome)
                     THEN Threw(@, ErrSave)
                     ELSE Returned(@, newTokens.access_token)]
           ELSE /\ outcome = "ok"
                /\ calls' = [calls EXCEPT ![c] = Threw(@, ErrRefresh)]
                /\ UNCHANGED <<file, writes>>
        /\ promises' = [promises EXCEPT ![p].leaderDone = TRUE]
  /\ refreshPromise' = 0
  /\ UNCHANGED <<now, ticks, sessVars, cliVars>>

\* ResumeShared with a fallback to the token the call had loaded.
ResumeShared_StaleOnFailure(c) ==
  /\ c \in 1..Len(calls)
  /\ calls[c].pc = "awaitShared"
  /\ LET p == calls[c].p
     IN /\ promises[p].status # "pending"
        /\ promises[p].leaderDone
        /\ calls' = [calls EXCEPT ![c] =
             IF promises[p].status = "fulfilled"
             THEN Returned(@, promises[p].value.access_token)
             ELSE Returned(@, calls[c].loaded.access_token)]
  /\ UNCHANGED <<file, now, ticks, writes, refreshPromise, promises, sessVars, cliVars>>

\* Lines 113-114: a call that awaited the shared handle resumes.
ResumeShared(c) ==
  /\ c \in 1..Len(calls)
  /\ calls[c].pc = "awaitShared"
  /\ LET p == calls[c].p
     IN /\ promises[p].status # "pending"
        /\ promises[p].leaderDone
        /\ calls' = [calls EXCEPT ![c] =
             IF promises[p].status = "fulfilled"
             THEN Returned(@, promises[p].value.access_token)
             ELSE Threw(@, ErrRefresh)]
  /\ UNCHANGED <<file, now, ticks, writes, refreshPromise, promises, sessVars, cliVars>>

\* Date.now() advances.  httpServer.listen answers (callback or "error")
\* before any measurable time has passed, so the clock waits for it.
TickSteps == {1}
Tick(d) ==
  /\ ticks < MaxTicks
  /\ httpServer # "binding"
  /\ now' = now + d
  /\ ticks' = ticks + 1
  /\ UNCHANGED <<file, writes, supVars, cliVars, sessVars>>

\* ------------------------------------------- interactive authorization
\* A query parameter as url.searchParams.get returns it: null when the
\* parameter is absent, the empty string, or a value.
ParamAbsent == <<"absent", 0>>
ParamEmpty == <<"", 0>>
Truthy(param) == param # ParamAbsent /\ param # ParamEmpty

Queries ==
  [error : {ParamAbsent, ParamEmpty, Tok("access_denied", 0)},
   code : {ParamAbsent, ParamEmpty, Tok("code", 1)},
   state : {ParamAbsent, Tok("state", 0), Tok("state", 1)}]

\* What arrives: a request to the listener, or a line on stdin.  isUrl says
\* whether new URL(text) succeeds, blank whether line.trim() is empty.
Paths == {"/callback", "/favicon.ico"}
Requests == [isUrl : {TRUE}, blank : {FALSE}, path : Paths, q : Queries]
Lines ==
  [isUrl : {TRUE}, blank : {FALSE}, path : {"/callback"}, q : Queries]
    \cup [isUrl : {FALSE}, blank : BOOLEAN, path : {"/callback"},
          q : {[error |-> ParamAbsent, code |-> ParamAbsent,
                state |-> ParamAbsent]}]

ParseCode(code) == [ok |-> TRUE, code |-> code, error |-> "none"]
ParseError(error) == [ok |-> FALSE, code |-> ParamAbsent, error |-> error]

\* parseCallbackUrl without the comparison of state with expectedState.
parseCallbackUrl_NoStateCheck(input, expectedState) ==
  IF ~input.isUrl THEN ParseError(ErrNotUrl)
  ELSE IF Truthy(input.q.error) THEN ParseError(ErrOAuth)
  ELSE IF ~Truthy(input.q.code) THEN ParseError(ErrNoCode)
  ELSE ParseCode(input.q.code)

\* parseCallbackUrl(input, expectedState), lines 178-201.
parseCallbackUrl(input, expectedState) ==
  IF ~input.isUrl THEN ParseError(ErrNotUrl)
  ELSE IF Truthy(input.q.error) THEN ParseError(ErrOAuth)
  ELSE IF ~Truthy(input.q.code) THEN ParseError(ErrNoCode)
  ELSE IF input.q.state # expectedState THEN ParseError(ErrState)
  ELSE ParseCode(input.q.code)

\* resolve() and reject(err) of the promise of runAuthFlow: only the first
\* call settles it, every call is counted.
Resolve(ap) ==
  [ap EXCEPT !.resolves = @ + 1,
             !.status = IF @ = "pending" THEN "resolved" ELSE @]
Reject(ap, err) ==
  [ap EXCEPT !.rejects = @ + 1,
             !.status = IF @ = "pending" THEN "rejected" ELSE @,
             !.error = IF ap.status = "pending" THEN err ELSE @]

\* cleanup(), lines 225-229.
cleanup ==
  /\ timeout' = IF timeout = "armed" THEN "cleared" ELSE timeout
  /\ httpServer' = IF httpServer # "null" THEN "closed" ELSE httpServer
  /\ rl' = IF rl # "null" THEN "closed" ELSE rl

\* runAuthFlow(config) up to httpServer.listen (lines 204-223, 280, 323).
\* The auth subcommand runs one session and exits when its promise settles
\* (index.ts 41-59).
runAuthFlow ==
  /\ sessions = 0
  /\ sessions' = sessions + 1
  /\ state' = Tok("state", sessions + 1)
  /\ settled' = FALSE
  /\ httpServer' = "binding"
  /\ rl' = "null"
  /\ timeout' = "armed"
  /\ deadline' = now + AUTH_TIMEOUT_MS
  /\ exchanges' = <<>>
  /\ authPromise' = [NoPromise EXCEPT !.status = "pending"]
  /\ lastResponse' = 0
  /\ lastEvent' = NoEvent
  /\ UNCHANGED <<file, now, ticks, writes, supVars, cliVars>>

\* The callback of httpServer.listen, lines 323-327.
Listening ==
  /\ httpServer = "binding"
  /\ httpServer' = "listening"
  /\ rl' = "open"
  /\ UNCHANGED <<file, now, ticks, writes, supVars, cliVars, sessions, state, settled,
                 timeout, deadline, exchanges, authPromise, lastResponse,
                 lastEvent>>

\* An "error" handler that gives the session up when the port is taken.
ListenError_Abort ==
  /\ httpServer = "binding"
  /\ httpServer' = "null"
  /\ settled' = TRUE
  /\ timeout' = "cleared"
  /\ authPromise' = Reject(authPromise, "listen EADDRINUSE")
  /\ UNCHANGED <<file, now, ticks, writes, supVars, cliVars, sessions, state, rl,
                 deadline, exchanges, lastResponse, lastEvent>>

\* httpServer.on("error"), lines 314-321: the port is busy.
ListenError ==
  /\ httpServer = "binding"
  /\ httpServer' = "null"
  /\ rl' = "open"
  /\ UNCHANGED <<file, now, ticks, writes, supVars, cliVars, sessions, state, settled,
                 timeout, deadline, exchanges, authPromise, lastResponse,
                 lastEvent>>

\* The timer callback of the earlier runAuthFlow: no test of settled.
Timeout_NoSettledCheck ==
  /\ timeout = "armed"
  /\ now >= deadline
  /\ settled' = TRUE
  /\ timeout' = "fired"
  /\ httpServer' = IF httpServer # "null" THEN "closed" ELSE httpServer
  /\ rl' = IF rl # "null" THEN "closed" ELSE rl
  /\ authPromise' = Reject(authPromise, ErrTimeout)
  /\ UNCHANGED <<file, now, ticks, writes, supVars, cliVars, sessions, state, deadline,
                 exchanges, lastResponse, lastEvent>>

\* A timer callback that releases the session's resources and forgets to
\* reject.
Timeout_NoReject ==
  /\ timeout = "armed"
  /\ now >= deadline
  /\ IF settled
     THEN /\ timeout' = "fired"
          /\ UNCHANGED <<settled, httpServer, rl, authPromise>>
     ELSE /\ settled' = TRUE
          /\ timeout' = "fired"
          /\ httpServer' = IF httpServer # "null" THEN "closed" ELSE httpServer
          /\ rl' = IF rl # "null" THEN "closed" ELSE rl
          /\ UNCHANGED authPromise
  /\ UNCHANGED <<file, now, ticks, writes, supVars, cliVars, sessions, state, deadline,
                 exchanges, lastResponse, lastEvent>>

\* The timer callback, lines 218-223.  cleanup() is written out: the timer
\* that is running its callback has fired, clearTimeout changes nothing.
Timeout ==
  /\ timeout = "armed"
  /\ now >= deadline
  /\ IF settled
     THEN /\ timeout' = "fired"
          /\ UNCHANGED <<settled, httpServer, rl, authPromise>>
     ELSE /\ settled' = TRUE
          /\ timeout' = "fired"
          /\ httpServer' = IF httpServer # "null" THEN "closed" ELSE httpServer
          /\ rl' = IF rl # "null" THEN "closed" ELSE rl
          /\ authPromise' = Reject(authPromise, ErrTimeout)
  /\ UNCHANGED <<file, now, ticks, writes, supVars, cliVars, sessions, state, deadline,
                 exchanges, lastResponse, lastEvent>>

\* handleCode without the test of settled.
handleCode_NoSettledCheck(code) ==
  /\ settled' = TRUE
  /\ exchanges' = Append(exchanges, [code |-> code, status |-> "pending"])

\* handleCode(code) up to `await exchangeCodeForTokens`, lines 231-235.
handleCode(code) ==
  IF settled
  THEN UNCHANGED <<settled, exchanges>>
  ELSE /\ settled' = TRUE
       /\ exchanges' = Append(exchanges, [code |-> code, status |-> "pending"])

\* A request handler without the test of url.pathname: every request is
\* taken for the callback.
Request_NoPathCheck(req) ==
  /\ httpServer = "listening"
  /\ lastEvent' = Event("listener", req, lastEvent)
  /\ LET result == parseCallbackUrl(req, state) IN
     IF ~result.ok
     THEN /\ lastResponse' = 400
          /\ IF ~settled
             THEN /\ settled' = TRUE
                  /\ cleanup
                  /\ authPromise' = Reject(authPromise, result.error)
             ELSE UNCHANGED <<settled, httpServer, rl, timeout, authPromise>>
          /\ UNCHANGED exchanges
     ELSE /\ lastResponse' = 200
          /\ handleCode(result.code)
          /\ UNCHANGED <<httpServer, rl, timeout, authPromise>>
  /\ UNCHANGED <<file, now, ticks, writes, supVars, cliVars, sessions, state, deadline>>

\* The request handler of the listener, lines 281-311.
Request(req) ==
  /\ httpServer = "listening"
  /\ lastEvent' = Event("listener", req, lastEvent)
  /\ LET result == parseCallbackUrl(req, state) IN
     IF req.path # "/callback"
     THEN /\ lastResponse' = 404
          /\ UNCHANGED <<settled, httpServer, rl, timeout, exchanges,
                         authPromise>>
     ELSE IF ~result.ok
     THEN /\ lastResponse' = 400
          /\ IF ~settled
             THEN /\ settled' = TRUE
                  /\ cleanup
                  /\ authPromise' = Reject(authPromise, result.error)
             ELSE UNCHANGED <<settled, httpServer, rl, timeout, authPromise>>
          /\ UNCHANGED exchanges
     ELSE /\ lastResponse' = 200
          /\ handleCode(result.code)
          /\ UNCHANGED <<httpServer, rl, timeout, authPromise>>
  /\ UNCHANGED <<file, now, ticks, writes, supVars, cliVars, sessions, state, deadline>>

\* A line handler that ends the session on a URL that does not parse to a
\* code, as the listener does.
Line_RejectOnError(line) ==
  /\ rl = "open"
  /\ lastEvent' = Event("paste", line, lastEvent)
  /\ LET result == parseCallbackUrl(line, state) IN
     IF settled \/ line.blank \/ ~line.isUrl
     THEN UNCHANGED <<settled, exchanges, httpServer, rl, timeout, authPromise>>
     ELSE IF ~result.ok
     THEN /\ settled' = TRUE
          /\ cleanup
          /\ authPromise' = Reject(authPromise, result.error)
          /\ UNCHANGED exchanges
     ELSE /\ handleCode(result.code)
          /\ UNCHANGED <<httpServer, rl, timeout, authPromise>>
  /\ UNCHANGED <<file, now, ticks, writes, supVars, cliVars, sessions, state,
                 deadline, lastResponse>>

\* The "line" handler of startStdinListener, lines 247-259.
Line(line) ==
  /\ rl = "open"
  /\ lastEvent' = Event("paste", line, lastEvent)
  /\ LET result == parseCallbackUrl(line, state) IN
     IF settled \/ line.blank \/ ~result.ok
     THEN UNCHANGED <<settled, exchanges>>
     ELSE handleCode(result.code)
  /\ UNCHANGED <<file, now, ticks, writes, supVars, cliVars, sessions, state,
                 httpServer, rl, timeout, deadline, authPromise, lastResponse>>

\* handleCode whose catch block rejects without calling cleanup().
ExchangeResponse_NoCleanupInCatch(i, ok, expires_in, outcome) ==
  /\ i \in 1..Len(exchanges)
  /\ exchanges[i].status = "pending"
  /\ exchanges' = [exchanges EXCEPT ![i].status =
                     IF ok THEN "succeeded" ELSE "failed"]
  /\ IF ok
     THEN LET tokens == Tokens(Tok("xaccess", sessions),
                               Tok("xrefresh", sessions),
                               Num(now + expires_in * 1000))
          IN /\ file' = saveTokens(file, tokens, outcome)
             /\ writes' = IF outcome = "mkdir" THEN writes ELSE writes + 1
             /\ IF saveThrows(outcome)
                THEN /\ authPromise' = Reject(authPromise, ErrSave)
                     /\ UNCHANGED <<timeout, httpServer, rl>>
                ELSE /\ authPromise' = Resolve(authPromise)
                     /\ cleanup
     ELSE /\ outcome = "ok"
          /\ authPromise' = Reject(authPromise, ErrExchange)
          /\ UNCHANGED <<file, writes, timeout, httpServer, rl>>
  /\ UNCHANGED <<now, ticks, supVars, cliVars, sessions, state, settled, deadline,
                 lastResponse, lastEvent>>

\* handleCode saving whatever exchangeCodeForTokens ended with, before it
\* looks at the outcome.
ExchangeResponse_SaveAnyway(i, ok, expires_in, outcome) ==
  /\ i \in 1..Len(exchanges)
  /\ exchanges[i].status = "pending"
  /\ exchanges' = [exchanges EXCEPT ![i].status =
                     IF ok THEN "succeeded" ELSE "failed"]
  /\ cleanup
  /\ IF ok
     THEN LET tokens == Tokens(Tok("xaccess", sessions),
                               Tok("xrefresh", sessions),
                               Num(now + expires_in * 1000))
          IN /\ file' = saveTokens(file, tokens, outcome)
             /\ writes' = IF outcome = "mkdir" THEN writes ELSE writes + 1
             /\ authPromise' = IF saveThrows(outcome)
                               THEN Reject(authPromise, ErrSave)
                               ELSE Resolve(authPromise)
     ELSE /\ outcome = "ok"
          /\ file' = saveTokens(file, Tokens(UNDEF, UNDEF, NumUndef), "ok")
          /\ writes' = writes + 1
          /\ authPromise' = Reject(authPromise, ErrExchange)
  /\ UNCHANGED <<now, ticks, supVars, cliVars, sessions, state, settled, deadline,
                 lastResponse, lastEvent>>

\* handleCode that swallows a throw of saveTokens and resolves.
ExchangeResponse_SaveErrorSwallowed(i, ok, expires_in, outcome) ==
  /\ i \in 1..Len(exchanges)
  /\ exchanges[i].status = "pending"
  /\ exchanges' = [exchanges EXCEPT ![i].status =
                     IF ok THEN "succeeded" ELSE "failed"]
  /\ cleanup
  /\ IF ok
     THEN LET tokens == Tokens(Tok("xaccess", sessions),
                               Tok("xrefresh", sessions),
                               Num(now + expires_in * 1000))
          IN /\ file' = saveTokens(file, tokens, outcome)
             /\ writes' = IF outcome = "mkdir" THEN writes ELSE writes + 1
             /\ authPromise' = Resolve(authPromise)
     ELSE /\ outcome = "ok"
          /\ authPromise' = Reject(authPromise, ErrExchange)
          /\ UNCHANGED <<file, writes>>
  /\ UNCHANGED <<now, ticks, supVars, cliVars, sessions, state, settled, deadline,
                 lastResponse, lastEvent>>

\* handleCode from the arrival of the token endpoint's response, lines
\* 160-175 of exchangeCodeForTokens and 236-242.
ExchangeResponse(i, ok, expires_in, outcome) ==
  /\ i \in 1..Len(exchanges)
  /\ exchanges[i].status = "pending"
  /\ exchanges' = [exchanges EXCEPT ![i].status =
                     IF ok THEN "succeeded" ELSE "failed"]
  /\ cleanup
  /\ IF ok
     THEN LET tokens == Tokens(Tok("xaccess", sessions),
                               Tok("xrefresh", sessions),
                               Num(now + expires_in * 1000))
          IN /\ file' = saveTokens(file, tokens, outcome)
             /\ writes' = IF outcome = "mkdir" THEN writes ELSE writes + 1
             /\ authPromise' = IF saveThrows(outcome)
                               THEN Reject(authPromise, ErrSave)
                               ELSE Resolve(authPromise)
     ELSE /\ outcome = "ok"
          /\ authPromise' = Reject(authPromise, ErrExchange)
          /\ UNCHANGED <<file, writes>>
  /\ UNCHANGED <<now, ticks, supVars, cliVars, sessions, state, settled, deadline,
                 lastResponse, lastEvent>>

\* The redirect the provider sends after the user approved, for the
\* session whose state is st.
Redirect(st) ==
  [isUrl |-> TRUE, blank |-> FALSE, path |-> "/callback",
   q |-> [error |-> ParamAbsent, code |-> Tok("code", 1), state |-> st]]

\* The interactive session, with everything that can reach it.
AuthNext ==
  \/ runAuthFlow
  \/ Listening
  \/ ListenError
  \/ Timeout
  \/ \E req \in Requests : Request(req)
  \/ \E line \in Lines : Line(line)
  \/ \E i \in 1..2, ok \in BOOLEAN, e \in ExpiresIn,
        o \in SaveOutcomes : ExchangeResponse(i, ok, e, o)
  \/ Tick(AUTH_TIMEOUT_MS)

AuthSpec == Init /\ [][AuthNext]_vars

\* The server process.  `freeagent-mcp-server auth` run meanwhile by the
\* operator is its environment: it shares TOKEN_FILE and nothing else, and
\* the browser's redirect is the one input it gets here.
Next ==
  \/ getValidAccessToken
  \/ \E p \in 1..MaxRefresh, ok \in BOOLEAN, e \in ExpiresIn :
       RefreshResponse(p, ok, e)
  \/ \E c \in 1..MaxCalls, o \in SaveOutcomes : ResumeOwn(c, o)
  \/ \E c \in 1..MaxCalls : ResumeShared(c)
  \/ \E d \in TickSteps : Tick(d)
  \/ runAuthFlow
  \/ Listening
  \/ Request(Redirect(state))
  \/ \E o \in {"ok", "write"} : ExchangeResponse(1, TRUE, 3600, o)

Spec == Init /\ [][Next]_vars

\* The server process alone, with no re-authorisation meanwhile, when every
\* refresh HTTP call is answered and every continuation that is ready to
\* run is run by the event loop.
SupNext ==
  \/ getValidAccessToken
  \/ \E p \in 1..MaxRefresh, ok \in BOOLEAN, e \in ExpiresIn :
       RefreshResponse(p, ok, e)
  \/ \E c \in 1..MaxCalls, o \in SaveOutcomes : ResumeOwn(c, o)
  \/ \E c \in 1..MaxCalls : ResumeShared(c)
  \/ \E d \in TickSteps : Tick(d)

FairSpec ==
  /\ Init /\ [][SupNext]_vars
  /\ WF_vars(\E p \in 1..MaxRefresh, ok \in BOOLEAN, e \in ExpiresIn :
               RefreshResponse(p, ok, e))
  /\ WF_vars(\E c \in 1..MaxCalls, o \in SaveOutcomes : ResumeOwn(c, o))
  /\ WF_vars(\E c \in 1..MaxCalls : ResumeShared(c))

\* ------------------------------------------------- server start and client
\* Server mode of index.ts, lines 60-86: the client is built from the
\* environment, or the process exits for want of credentials.
main ==
  /\ client.status = "none"
  /\ IF ~Falsy(env.FREEAGENT_ACCESS_TOKEN)
     THEN /\ client' = FreeAgentClient("static",
                                       Tok(env.FREEAGENT_ACCESS_TOKEN, 0),
                                       env.FREEAGENT_BASE_URL)
          /\ UNCHANGED config
     ELSE LET cfg == buildOAuthConfig(env)
              baseUrl == IF Falsy(env.FREEAGENT_BASE_URL)
                         THEN getApiBase(cfg.sandbox)
                         ELSE env.FREEAGENT_BASE_URL
          IN /\ config' = cfg
             /\ client' = IF cfg.isNull
                          THEN [NoClient EXCEPT !.status = "exited"]
                          ELSE FreeAgentClient("function", UNDEF, baseUrl)
  /\ UNCHANGED <<file, now, ticks, writes, supVars, sessVars, env, requests,
                 providerCalls, fetches>>

ApiPaths == {"/company"}
\* What a provider function can return: getValidAccessToken gives the
\* stored token or a refreshed one.
AccessTokens == {Tok("access", 0), Tok("access", 1)}

\* FreeAgentClient.request up to `await this.getAccessToken()`, client.ts
\* 89-106: the URL is built and the provider is invoked.
request(path) ==
  /\ client.status = "constructed"
  /\ Len(requests) < MaxRequests
  /\ requests' = Append(requests,
       [pc |-> "awaitToken", url |-> [base |-> client.baseUrl, path |-> path],
        out |-> "pending", err |-> "none"])
  /\ providerCalls' = Append(providerCalls,
       [req |-> Len(requests) + 1, status |-> "pending", token |-> UNDEF])
  /\ UNCHANGED <<file, now, ticks, writes, supVars, sessVars, env, config,
                 client, fetches>>

\* request with the token kept from the first request that got one.
ProviderSettles_TokenKept(k, ok, token) ==
  /\ k \in 1..Len(providerCalls)
  /\ providerCalls[k].status = "pending"
  /\ client.provider = "static" => ok /\ token = client.token
  /\ client.provider = "function" => token \in AccessTokens
  /\ providerCalls' = [providerCalls EXCEPT
       ![k].status = IF ok THEN "fulfilled" ELSE "rejected",
       ![k].token = IF ok THEN token ELSE UNDEF]
  /\ LET i == providerCalls[k].req
         kept == IF fetches = <<>> THEN token ELSE fetches[1].authorization[2]
     IN IF ok
        THEN /\ fetches' = Append(fetches,
                  [req |-> i, url |-> requests[i].url,
                   authorization |-> Bearer(kept)])
             /\ requests' = [requests EXCEPT ![i].pc = "awaitFetch"]
        ELSE /\ requests' = [requests EXCEPT ![i].pc = "done",
                                             ![i].out = "error",
                                             ![i].err = ErrProvider]
             /\ UNCHANGED fetches
  /\ UNCHANGED <<file, now, ticks, writes, supVars, sessVars, env, config,
                 client>>

\* The provider's promise settles and request resumes, client.ts 106-127:
\* with a token it builds the headers and calls fetch, on a rejection the
\* await throws and request rejects with it.
ProviderSettles(k, ok, token) ==
  /\ k \in 1..Len(providerCalls)
  /\ providerCalls[k].status = "pending"
  /\ client.provider = "static" => ok /\ token = client.token
  /\ client.provider = "function" => token \in AccessTokens
  /\ providerCalls' = [providerCalls EXCEPT
       ![k].status = IF ok THEN "fulfilled" ELSE "rejected",
       ![k].token = IF ok THEN token ELSE UNDEF]
  /\ LET i == providerCalls[k].req
     IN IF ok
        THEN /\ fetches' = Append(fetches,
                  [req |-> i, url |-> requests[i].url,
                   authorization |-> Bearer(token)])
             /\ requests' = [requests EXCEPT ![i].pc = "awaitFetch"]
        ELSE /\ requests' = [requests EXCEPT ![i].pc = "done",
                                             ![i].out = "error",
                                             ![i].err = ErrProvider]
             /\ UNCHANGED fetches
  /\ UNCHANGED <<file, now, ticks, writes, supVars, sessVars, env, config,
                 client>>

\* The HTTP response arrives and request returns the body or throws the
\* API error, client.ts 129-137.
FetchResponse(i, ok) ==
  /\ i \in 1..Len(requests)
  /\ requests[i].pc = "awaitFetch"
  /\ requests' = [requests EXCEPT ![i].pc = "done",
                                  ![i].out = IF ok THEN "json" ELSE "apiError"]
  /\ UNCHANGED <<file, now, ticks, writes, supVars, sessVars, env, config,
                 client, providerCalls, fetches>>

\* A server process started in any environment, and the requests its tools
\* make.
ClientInit ==
  /\ file = FileJson(JSONstringify(StoredFresh))
  /\ now = T0
  /\ ticks = 0
  /\ writes = 0
  /\ refreshPromise = 0
  /\ promises = <<>>
  /\ calls = <<>>
  /\ SessionIdle
  /\ env \in Envs
  /\ ClientIdle

ClientNext ==
  \/ main
  \/ \E path \in ApiPaths : request(path)
  \/ \E k \in 1..MaxRequests, ok \in BOOLEAN, token \in AccessTokens
          \cup {Tok("legacy-token", 0)} : ProviderSettles(k, ok, token)
  \/ \E i \in 1..MaxRequests, ok \in BOOLEAN : FetchResponse(i, ok)

ClientSpec == ClientInit /\ [][ClientNext]_vars


\* ================================================================= claims
CallIds == 1..Len(calls)
PromiseIds == 1..Len(promises)
Participants(p) == {c \in CallIds : calls[c].p = p}
Done(c) == calls[c].pc = "done"
\* The step is the synchronous start of one more getValidAccessToken call.
CallStarts == Len(calls') = Len(calls) + 1
NewCall == calls'[Len(calls')]
\* Every call around refresh p had loaded a credential with all three fields.
FullBatch(p) == \A c \in Participants(p) : IsFullCredential(calls[c].loaded)

\* C1: the calls that meet an expired credential (a record with all three
\* fields) around one refresh (the one
\* that finds no handle and those that find its handle) cause exactly one
\* refreshAccessToken call, and when that call succeeds every one of them
\* returns the access token of its response.
C1_SingleFlightBatch ==
  \A p \in PromiseIds :
    /\ Cardinality({c \in Participants(p) : calls[c].role = "leader"}) = 1
    /\ (FullBatch(p) /\ promises[p].status = "fulfilled") =>
         \A c \in Participants(p) :
           Done(c) => /\ calls[c].out = "token"
                      /\ calls[c].token = promises[p].value.access_token

\* C2: at most one refresh HTTP call is outstanding, and it is the one the
\* shared handle refers to.
C2_OneRefreshOutstanding ==
  /\ Cardinality({p \in PromiseIds : promises[p].status = "pending"}) <= 1
  /\ \A p \in PromiseIds : promises[p].status = "pending" => refreshPromise = p

\* A second refresh is outstanding after a failed first one, and a call that
\* arrived meanwhile awaits it.
C2_Witness ==
  /\ Len(promises) = 2
  /\ promises[1].status = "rejected"
  /\ promises[2].status = "pending"
  /\ \E c \in Participants(2) : calls[c].pc = "awaitShared"

\* C3: the caller that started a refresh for an expired credential (all
\* three fields present) and the callers that awaited its handle all get the same outcome, the new token or the same failure, and
\* none gets the token it had loaded; also when saving fails.
C3_SameOutcomeForAll ==
  \A p \in PromiseIds : \A c, d \in Participants(p) :
    (FullBatch(p) /\ Done(c) /\ Done(d)) =>
      /\ calls[c].out = calls[d].out
      /\ calls[c].token = calls[d].token
      /\ calls[c].err = calls[d].err
      /\ calls[c].out = "token" => calls[c].token = promises[p].value.access_token

\* C4: a failed refresh fails the call that started it and every call that
\* awaited it; none of them causes another refresh call; the step that
\* delivers the failure leaves the store as it is.
C4_RefreshFailurePropagates ==
  /\ [](\A p \in PromiseIds : promises[p].status = "rejected" =>
          \A c \in Participants(p) :
            Done(c) => calls[c].out = "error" /\ calls[c].err = ErrRefresh)
  /\ [](Len(promises) = Cardinality({c \in CallIds : calls[c].role = "leader"}))
  /\ [][\A c \in CallIds :
          (/\ ~Done(c)
           /\ promises[calls[c].p].status = "rejected"
           /\ calls'[c].pc = "done")
          => /\ file' = file
             /\ writes' = writes
             /\ Len(promises') = Len(promises)]_vars

\* The refresh failed and both its starter and a waiter have thrown.
C4_Witness ==
  \E p \in PromiseIds :
    /\ promises[p].status = "rejected"
    /\ \E c, d \in Participants(p) :
         /\ calls[c].role = "leader" /\ calls[c].err = ErrRefresh
         /\ calls[d].role = "waiter" /\ calls[d].err = ErrRefresh

\* C5: the handle is non-null only while the call that installed it is
\* suspended on it; once every refresh so far has been delivered to its
\* starter (success, failure or a throwing save), a call that meets an
\* expired credential starts a new refresh.
C5_HandleCleared ==
  /\ [](refreshPromise # 0 =>
          \E c \in CallIds :
            calls[c].pc = "awaitOwn" /\ calls[c].p = refreshPromise)
  /\ []((\A c \in CallIds : Done(c)) => refreshPromise = 0)
  /\ [][(/\ CallStarts
         /\ \A p \in PromiseIds : promises[p].leaderDone
         /\ loadTokens(file).truthy
         /\ isTokenExpired(loadTokens(file), now))
        => /\ NewCall.role = "leader"
           /\ NewCall.p = Len(promises) + 1
           /\ refreshPromise' = Len(promises) + 1
           /\ promises'[Len(promises) + 1].status = "pending"]_vars

\* After a failed refresh and after a save that threw, the handle is null
\* and a later call has started a refresh of its own.
C5_Witness ==
  /\ Len(promises) = 2
  /\ promises[1].status = "rejected"
  /\ \E c \in Participants(1) : calls[c].err = ErrRefresh
  /\ \E c \in Participants(2) : calls[c].role = "leader" /\ calls[c].err = ErrSave
  /\ refreshPromise = 0

\* C6: a call that loads a record that is not expired returns its
\* access_token in the same step, without reading or changing the handle,
\* without a refresh call and without writing the store.
C6_NotExpiredReturnsStored ==
  [][(/\ CallStarts
      /\ loadTokens(file).truthy
      /\ ~isTokenExpired(loadTokens(file), now))
     => /\ NewCall.pc = "done"
        /\ NewCall.out = "token"
        /\ NewCall.token = loadTokens(file).access_token
        /\ ~NewCall.readHandle
        /\ UNCHANGED <<refreshPromise, promises, file, writes>>]_vars

\* A call returned the stored token while an earlier call was suspended on
\* the refresh handle it had installed.
C6_Witness ==
  \E c, l \in CallIds :
    /\ l < c
    /\ calls[l].pc = "awaitOwn"
    /\ refreshPromise = calls[l].p
    /\ calls[c].role = "none"
    /\ calls[c].out = "token"

\* C7: the call that met an expired credential (all three fields present)
\* and is resumed by a successful refresh returns the access token of the
\* response, and the store then holds the credential of that response and
\* nothing of the previous record.
C7_RefreshReturnsAndStores ==
  [][\A c \in CallIds :
       (/\ calls[c].pc = "awaitOwn"
        /\ IsFullCredential(calls[c].loaded)
        /\ promises[calls[c].p].status = "fulfilled"
        /\ calls'[c].pc = "done")
       => /\ calls'[c].out = "token"
          /\ calls'[c].token = promises[calls[c].p].value.access_token
          /\ loadTokens(file') = promises[calls[c].p].value]_vars

\* C8: with no credential stored a call throws the "No stored tokens found"
\* error in the same step; no refresh call, no handle, no write, no session.
NoCredentialStored(f) == f.kind # "json" \/ f.json.type = "null"
C8_NoTokensFails ==
  [][(CallStarts /\ NoCredentialStored(file))
     => /\ NewCall.pc = "done"
        /\ NewCall.out = "error"
        /\ NewCall.err = ErrNoTokens
        /\ UNCHANGED <<refreshPromise, promises, file, writes, sessVars>>]_vars

\* Two calls failed for want of a credential, no refresh was ever called,
\* and the call made after the session stored one returned its token.
C8_Witness ==
  /\ Len(calls) = 3
  /\ calls[1].err = ErrNoTokens
  /\ calls[2].err = ErrNoTokens
  /\ calls[3].out = "token"
  /\ calls[3].token = Tok("xaccess", 1)
  /\ Len(promises) = 0

\* C9: a call that loaded a record lacking one of the three fields, or a
\* non-object, fails with the no-stored-tokens error.
C9_PartialRecordRejected ==
  \A c \in CallIds :
    ~IsFullCredential(calls[c].loaded) =>
      /\ calls[c].out = "error"
      /\ calls[c].err = ErrNoTokens

\* C10: resolve and reject of the session's promise are called at most once
\* in total; once settled is set, a request, a line or the timer starts no
\* token exchange, calls neither resolve nor reject and writes nothing.
C10_SettledOnce ==
  /\ [](authPromise.resolves + authPromise.rejects <= 1)
  /\ [][(settled /\ sessions' = sessions)
        => /\ Len(exchanges') = Len(exchanges)
           /\ exchanges' = exchanges =>
                /\ authPromise' = authPromise
                /\ file' = file
                /\ writes' = writes]_vars

\* The timer fired while the exchange was outstanding, a request arrived
\* too, and the session then resolved.
C10_Witness ==
  /\ authPromise.status = "resolved"
  /\ timeout = "fired"
  /\ lastResponse = 400
  /\ authPromise.resolves = 1
  /\ authPromise.rejects = 0

\* The step handled a request (channel "listener") or a line ("paste").
Handled(channel) == lastEvent' # lastEvent /\ lastEvent'.channel = channel
Received == lastEvent'.input
\* The step started a token exchange.
ExchangeStarts == Len(exchanges') = Len(exchanges) + 1
NewExchange == exchanges'[Len(exchanges')]

\* C11: a token exchange is started only by a request or a line whose
\* state parameter is the state generated for the session, and it is
\* called with the code of that very callback; a callback with an absent or
\* different state starts none, even when it carries a code.
C11_StateChecked ==
  [][/\ Len(exchanges') > Len(exchanges) =>
          /\ ExchangeStarts
          /\ Handled("listener") \/ Handled("paste")
          /\ Received.q.state = state
          /\ NewExchange.code = Received.q.code
     /\ ( /\ Handled("listener") \/ Handled("paste")
          /\ Received.q.state # state )
        => exchanges' = exchanges]_vars

\* A callback with a code and another session's state was handled, by the
\* paste channel, and no exchange was started.
C11_Witness ==
  /\ lastEvent.channel = "paste"
  /\ lastEvent.input.isUrl
  /\ lastEvent.input.q.error = ParamAbsent
  /\ lastEvent.input.q.code = Tok("code", 1)
  /\ lastEvent.input.q.state = Tok("state", 0)
  /\ state = Tok("state", 1)
  /\ ~settled
  /\ exchanges = <<>>

\* A callback URL in an error branch: the provider's error parameter is
\* present, or the code is absent, or the state is not the session's.
ErrorCallback(input) ==
  /\ input.isUrl
  /\ \/ Truthy(input.q.error)
     \/ ~Truthy(input.q.code)
     \/ input.q.state # state
CallbackErrors == {ErrOAuth, ErrNoCode, ErrState}
\* The step rejected the session's promise with a callback error.
RejectedByCallback ==
  /\ authPromise'.status = "rejected"
  /\ authPromise'.rejects = authPromise.rejects + 1
  /\ authPromise'.error \in CallbackErrors
  /\ settled'

Settled == authPromise.status \in {"resolved", "rejected"}
Released == timeout # "armed" /\ httpServer # "listening" /\ rl # "open"

\* C13: once the timer has fired the session is settled (resolved before,
\* or rejected, by the timer at the latest) and its listener, paste channel
\* and timer are released, also when the timer fires while the token
\* exchange of a received code is outstanding.
C13_SettlesByTimer ==
  timeout = "fired" => Settled /\ Released

\* C14: a session that has handled no request and no line when its timer
\* fires is rejected with the timeout error, has started no token exchange
\* and has written nothing; until then it is pending.
C14_SilentSessionTimesOut ==
  (sessions = 1 /\ lastEvent = NoEvent) =>
    /\ exchanges = <<>>
    /\ writes = 0
    /\ authPromise.resolves = 0
    /\ IF timeout = "fired"
       THEN /\ authPromise.status = "rejected"
            /\ authPromise.error = ErrTimeout
            /\ authPromise.rejects = 1
            /\ now >= deadline
       ELSE authPromise.status = "pending" /\ timeout = "armed"

\* The timer of a session that nothing reached has fired.
C14_Witness ==
  /\ sessions = 1
  /\ lastEvent = NoEvent
  /\ timeout = "fired"
  /\ authPromise.status = "rejected"
  /\ authPromise.error = ErrTimeout
  /\ now = T0 + AUTH_TIMEOUT_MS

\* C15: whenever the session's promise is resolved or rejected, by
\* whichever event, the timer is no longer armed, the listener is closed
\* unless it never bound, and the paste channel is closed unless it was
\* never started; resolve or reject is never called with a resource open.
C15_ReleasedOnSettlement ==
  /\ [](Settled =>
          /\ timeout \in {"cleared", "fired"}
          /\ httpServer \in {"closed", "null"}
          /\ rl \in {"closed", "null"}
          /\ httpServer = "null" => rl = "closed")
  /\ [][authPromise'.resolves + authPromise'.rejects
          > authPromise.resolves + authPromise.rejects
        => /\ timeout' \in {"cleared", "fired"}
           /\ httpServer' \in {"closed", "null"}
           /\ rl' = "closed"]_vars

\* A session rejected because its token exchange failed, with the listener
\* it had bound and the paste channel closed and the timer cleared.
C15_Witness ==
  /\ authPromise.status = "rejected"
  /\ authPromise.error = ErrExchange
  /\ timeout = "cleared"
  /\ httpServer = "closed"
  /\ rl = "closed"

\* The session ended in a protocol error, a failed exchange or the timeout.
FailedSession ==
  /\ authPromise.status = "rejected"
  /\ authPromise.error \in CallbackErrors \cup {ErrExchange, ErrTimeout}
ExchangeSucceeds(i) ==
  /\ i \in 1..Len(exchanges)
  /\ exchanges[i].status = "pending"
  /\ exchanges'[i].status = "succeeded"

\* C16: the token file is touched only in the step in which the session's
\* token exchange succeeds; a session that ended in a protocol error, a
\* failed exchange or the timeout has no succeeded exchange and has written
\* nothing, so the stored credential is as it was.
C16_NothingPersistedOnFailure ==
  /\ [](FailedSession =>
          /\ writes = 0
          /\ file \in InitialFiles
          /\ \A i \in 1..Len(exchanges) : exchanges[i].status # "succeeded")
  /\ [][(file' # file \/ writes' # writes)
        => \E i \in 1..Len(exchanges) : ExchangeSucceeds(i)]_vars

\* A session whose exchange failed, with the credential stored before it
\* still in the file.
C16_Witness ==
  /\ authPromise.status = "rejected"
  /\ authPromise.error = ErrExchange
  /\ Len(exchanges) = 1
  /\ exchanges[1].status = "failed"
  /\ file = FileJson(JSONstringify(StoredFresh))
  /\ writes = 0

\* The listener could not bind: httpServer was set back to null.
PasteOnly == sessions = 1 /\ httpServer = "null"
\* A callback URL that carries a code and the session's state, and no error.
ValidCallback(input) ==
  /\ input.isUrl
  /\ ~Truthy(input.q.error)
  /\ Truthy(input.q.code)
  /\ input.q.state = state

\* C17: after a failed bind the session is not settled: it waits with the
\* paste channel open and the timer armed; a valid callback URL pasted
\* then starts the exchange of its code, and when that exchange succeeds
\* and the credential is written the session resolves with the new
\* credential in the file.
C17_BindFailureFallsBackToPaste ==
  /\ [][(httpServer = "binding" /\ httpServer' = "null")
        => /\ ~settled'
           /\ rl' = "open"
           /\ timeout' = "armed"
           /\ authPromise'.status = "pending"]_vars
  /\ []((PasteOnly /\ ~settled) =>
          /\ authPromise.status = "pending"
          /\ rl = "open"
          /\ timeout = "armed")
  /\ [][(PasteOnly /\ ~settled /\ Handled("paste") /\ ValidCallback(Received))
        => /\ ExchangeStarts
           /\ NewExchange = [code |-> Received.q.code, status |-> "pending"]
           /\ authPromise'.status = "pending"]_vars
  /\ [][(PasteOnly /\ (\E i \in 1..Len(exchanges) : ExchangeSucceeds(i))
           /\ writes' = writes + 1 /\ file'.kind = "json")
        => /\ authPromise'.status = "resolved"
           /\ authPromise'.resolves = 1
           /\ loadTokens(file').access_token = Tok("xaccess", sessions)
           /\ rl' = "closed"]_vars

\* The port was taken, a valid URL was pasted, and the session resolved
\* with the exchanged credential saved.
C17_Witness ==
  /\ PasteOnly
  /\ lastEvent.channel = "paste"
  /\ ValidCallback(lastEvent.input)
  /\ authPromise.status = "resolved"
  /\ Len(exchanges) = 1
  /\ exchanges[1].status = "succeeded"
  /\ loadTokens(file).access_token = Tok("xaccess", 1)
  /\ writes = 1

\* C18: a request for a path other than /callback is answered 404 and
\* changes nothing of the session nor of the store: settled, the timer, the
\* listener, the paste channel, the exchanges, the promise and the file
\* stay as they were, whatever the query string of the request.
C18_OtherPathIs404 ==
  [][(Handled("listener") /\ Received.path # "/callback")
     => /\ lastResponse' = 404
        /\ UNCHANGED <<settled, timeout, deadline, httpServer, rl, exchanges,
                       authPromise, state, sessions, file, writes>>]_vars

\* /favicon.ico was requested with a code and the session's state in its
\* query; the session still waits on both channels with its timer armed.
C18_Witness ==
  /\ lastEvent.channel = "listener"
  /\ lastEvent.input.path = "/favicon.ico"
  /\ ValidCallback(lastEvent.input)
  /\ lastResponse = 404
  /\ ~settled
  /\ authPromise.status = "pending"
  /\ httpServer = "listening"
  /\ rl = "open"
  /\ timeout = "armed"
  /\ exchanges = <<>>

\* C19: for a stored credential with its three fields, isTokenExpired at
\* the current time is true exactly when now >= expires_at - 60000, and a
\* call returns the stored token without a refresh exactly when
\* now < expires_at - 60000: at expires_at - 60000 the credential is
\* expired, one millisecond earlier it is not.
C19_ExpiryBoundary ==
  /\ [](LET C == loadTokens(file) IN
          IsFullCredential(C) =>
            /\ isTokenExpired(C, now) <=> (now >= C.expires_at.n - 60000)
            /\ isTokenExpired(C, C.expires_at.n - 60000)
            /\ ~isTokenExpired(C, C.expires_at.n - 60001))
  /\ [][(CallStarts /\ IsFullCredential(NewCall.loaded))
        => ( (NewCall.role = "none" /\ NewCall.out = "token")
             <=> (now < NewCall.loaded.expires_at.n - 60000) )]_vars

\* The same credential was met one millisecond before expires_at - 60000
\* by a call that returned it, and at expires_at - 60000 by a call that
\* started a refresh.
C19_Witness ==
  /\ Len(calls) >= 2
  /\ calls[1].loaded = StoredFresh
  /\ calls[1].role = "none"
  /\ calls[1].out = "token"
  /\ calls[2].loaded = StoredFresh
  /\ calls[2].role = "leader"
  /\ now = StoredFresh.expires_at.n - 60000

\* C20: loadTokens gives null for a missing file, an empty file and a file
\* that is not JSON, the same in all three cases, and every call works on
\* what the file holds when it starts: null if the file is then missing,
\* empty or invalid, the parsed content otherwise, whatever an earlier call
\* read.
C20_LoadReadsFileEachTime ==
  /\ [](\A f \in {FileMissing, FileEmpty, FileInvalid} :
          loadTokens(f) = NullTokens /\ ~loadTokens(f).truthy)
  /\ [][CallStarts =>
          /\ file.kind \in {"missing", "empty", "invalid"} =>
               /\ NewCall.loaded = NullTokens
               /\ NewCall.out = "error"
               /\ NewCall.err = ErrNoTokens
          /\ file.kind = "json" => NewCall.loaded = JSONparse(file.json)]_vars

\* The first call returned the stored token; the file was truncated since,
\* and the next call found no tokens.
C20_Witness ==
  /\ Len(calls) >= 2
  /\ calls[1].out = "token"
  /\ calls[1].loaded = StoredFresh
  /\ calls[2].loaded = NullTokens
  /\ calls[2].err = ErrNoTokens
  /\ file = FileEmpty

\* The step is the return of call c from a refresh it started: saveTokens
\* of the refresh's credential completed.
SavedByRefresh(c) ==
  /\ calls[c].pc = "awaitOwn"
  /\ calls'[c].pc = "done"
  /\ calls'[c].out = "token"
\* The step is the successful end of the session: saveTokens completed.
SavedBySession ==
  /\ \E i \in 1..Len(exchanges) : ExchangeSucceeds(i)
  /\ authPromise'.status = "resolved"

\* C21: whatever the file held, loadTokens right after a completed
\* saveTokens(C) gives C back, equal in its three fields: for the stored
\* credentials of Init, for the credential of every refresh and for the
\* credential of the session; so after several saves it is the last one.
C21_RoundTrip ==
  /\ [](\A C \in {StoredExpired, StoredFresh} :
          /\ loadTokens(saveTokens(file, C, "ok")) = C
          /\ loadTokens(saveTokens(file, C, "ok")).refresh_token
               = C.refresh_token)
  /\ [][\A c \in CallIds :
          SavedByRefresh(c) =>
            /\ IsFullCredential(promises[calls[c].p].value)
            /\ loadTokens(file') = promises[calls[c].p].value]_vars
  /\ [][SavedBySession =>
          loadTokens(file')
            = Tokens(Tok("xaccess", sessions), Tok("xrefresh", sessions),
                     Num(now + 3600000))]_vars

\* Two refreshes were saved one after the other and a call then loaded the
\* credential of the second.
C21_Witness ==
  /\ writes = 2
  /\ Len(promises) = 2
  /\ Len(calls) = 3
  /\ promises[1].value # promises[2].value
  /\ calls[3].loaded = promises[2].value
  /\ loadTokens(file) = promises[2].value

\* C25: a /callback request without an error parameter whose state is not
\* the session's is rejected with the state-mismatch error, with or
\* without a code, and the no-code error is given only to a callback whose
\* state is the session's.
C25_StateBeforeCode ==
  [][( /\ Handled("listener")
       /\ Received.path = "/callback"
       /\ ~Truthy(Received.q.error)
       /\ ~settled )
     => /\ Received.q.state # state =>
             /\ authPromise'.status = "rejected"
             /\ authPromise'.error = ErrState
        /\ authPromise'.error = ErrNoCode => Received.q.state = state]_vars

\* The step ends exchange i in failure.
ExchangeFails(i) ==
  /\ i \in 1..Len(exchanges)
  /\ exchanges[i].status = "pending"
  /\ exchanges'[i].status = "failed"
\* The step wrote the session's credential to the file.
SessionCredentialSaved ==
  /\ writes' = writes + 1
  /\ file'.kind = "json"
  /\ loadTokens(file').access_token = Tok("xaccess", sessions)
  /\ loadTokens(file').refresh_token = Tok("xrefresh", sessions)

\* C26: resolve is called only in the step in which the exchange succeeds
\* and the credential it returned is written; a failed exchange rejects
\* with the exchange error and writes nothing, a succeeded exchange whose
\* save throws rejects with the error of the save; neither resolves.
C26_ResolveAfterExchangeAndSave ==
  /\ [](authPromise.status = "resolved" =>
          /\ authPromise.rejects = 0
          /\ \E i \in 1..Len(exchanges) : exchanges[i].status = "succeeded")
  /\ [][authPromise'.resolves > authPromise.resolves =>
          /\ \E i \in 1..Len(exchanges) : ExchangeSucceeds(i)
          /\ SessionCredentialSaved]_vars
  /\ [][\A i \in 1..Len(exchanges) :
          /\ ExchangeFails(i) =>
               /\ authPromise'.status = "rejected"
               /\ authPromise'.error = ErrExchange
               /\ authPromise'.resolves = 0
               /\ file' = file /\ writes' = writes
          /\ (ExchangeSucceeds(i) /\ ~SessionCredentialSaved) =>
               /\ authPromise'.status = "rejected"
               /\ authPromise'.error = ErrSave
               /\ authPromise'.resolves = 0]_vars

\* The exchange succeeded, writeFileSync threw, and the session is rejected
\* with that error.
C26_Witness ==
  /\ Len(exchanges) = 1
  /\ exchanges[1].status = "succeeded"
  /\ authPromise.status = "rejected"
  /\ authPromise.error = ErrSave
  /\ authPromise.resolves = 0
  /\ file = FileEmpty

\* C27: the listener's last answer is the 200 success page only in a
\* session that is pending or ended in success, never in one that was
\* rejected.
C27_SuccessPageMeansSuccess ==
  lastResponse = 200 => authPromise.status # "rejected"

\* C28: a session starts at most one token exchange, however many valid
\* callbacks the listener and the paste channel receive and whenever they
\* come relative to the outstanding exchange.
C28_OneExchangePerSession ==
  /\ [](Len(exchanges) <= 1)
  /\ [][(settled /\ sessions' = sessions) => ~ExchangeStarts]_vars

\* The redirect was answered 200 by the listener and pasted as a line too
\* while the one exchange is outstanding.
C28_Witness ==
  /\ lastResponse = 200
  /\ lastEvent.channel = "paste"
  /\ ValidCallback(lastEvent.input)
  /\ settled
  /\ Len(exchanges) = 1
  /\ exchanges[1].status = "pending"
  /\ authPromise.status = "pending"

\* The refreshes that succeeded before refresh p was sent.
SucceededBefore(p) == {q \in 1..(p - 1) : promises[q].status = "fulfilled"}
Latest(S) == CHOOSE q \in S : \A r \in S : r <= q

\* C29: every refresh request of calls that met a credential with its three
\* fields carries the refresh_token of the latest refresh response that
\* succeeded before it (while no re-authorisation wrote the file), and
\* never a refresh_token that an earlier successful refresh consumed.
C29_RotationRespected ==
  \A p \in PromiseIds :
    (FullBatch(p) /\ SucceededBefore(p) # {}) =>
      /\ sessions = 0 =>
           promises[p].sent
             = promises[Latest(SucceededBefore(p))].value.refresh_token
      /\ \A q \in SucceededBefore(p) : promises[p].sent # promises[q].sent

\* C30: when every refresh call is answered, every getValidAccessToken
\* call comes to its end, with a token or an error, whatever the number of
\* callers and their interleaving; a call that awaits a refresh is never
\* left behind once that refresh has settled and its handle is cleared.
C30_EveryCallEnds ==
  \A c \in 1..MaxCalls :
    [](c \in CallIds => <>(c \in CallIds /\ Done(c)))

\* All calls have ended, one of them after it awaited the handle of a
\* refresh that failed.
C30_Witness ==
  /\ Len(calls) = MaxCalls
  /\ \A c \in CallIds : Done(c)
  /\ \E c \in CallIds : calls[c].role = "waiter" /\ calls[c].out = "error"
  /\ \E c \in CallIds : calls[c].role = "leader"
  /\ refreshPromise = 0

RequestIds == 1..Len(requests)
ProviderCallsOf(i) ==
  {k \in 1..Len(providerCalls) : providerCalls[k].req = i}
FetchesOf(i) == {f \in 1..Len(fetches) : fetches[f].req = i}
\* The step sent an HTTP request.
FetchStarts == Len(fetches') = Len(fetches) + 1
NewFetch == fetches'[Len(fetches')]

\* C22: every request of the client has exactly one invocation of the
\* token provider and at most one HTTP request; the HTTP request is sent
\* in a later step than the invocation, when the invocation has returned a
\* token, and its Authorization header is "Bearer " and that token; when
\* the invocation fails nothing is sent and the request fails with the
\* provider's error.
C22_ProviderBeforeEveryRequest ==
  /\ [](\A i \in RequestIds :
          /\ Cardinality(ProviderCallsOf(i)) = 1
          /\ Cardinality(FetchesOf(i)) <= 1
          /\ \A k \in ProviderCallsOf(i) :
               /\ \A f \in FetchesOf(i) :
                    /\ providerCalls[k].status = "fulfilled"
                    /\ fetches[f].authorization
                         = <<"Bearer ", providerCalls[k].token>>
               /\ providerCalls[k].status = "rejected" =>
                    /\ FetchesOf(i) = {}
                    /\ requests[i].pc = "done"
                    /\ requests[i].out = "error"
                    /\ requests[i].err = ErrProvider
               /\ providerCalls[k].status = "pending" => FetchesOf(i) = {})
  /\ [][FetchStarts =>
          \E k \in 1..Len(providerCalls) :
            /\ providerCalls[k].req = NewFetch.req
            /\ providerCalls[k].status = "pending"
            /\ providerCalls'[k].status = "fulfilled"]_vars

\* Two requests were sent with two different tokens, each with the token
\* its own invocation of the provider returned.
C22_Witness ==
  /\ Len(fetches) = 2
  /\ fetches[1].authorization = <<"Bearer ", Tok("access", 0)>>
  /\ fetches[2].authorization = <<"Bearer ", Tok("access", 1)>>
  /\ Len(providerCalls) = 2

\* index.ts constructs the client without a base URL when it is given an
\* access token and no FREEAGENT_BASE_URL (66-69); otherwise the second
\* argument is FREEAGENT_BASE_URL or, with the OAuth credentials, the base
\* of the configured mode (81-85).
WithoutBaseUrl ==
  ~Falsy(env.FREEAGENT_ACCESS_TOKEN) /\ Falsy(env.FREEAGENT_BASE_URL)
BaseUrlGiven ==
  IF ~Falsy(env.FREEAGENT_BASE_URL) THEN env.FREEAGENT_BASE_URL
  ELSE getApiBase(config.sandbox)

C24_ProductionUnlessSandboxTrue ==
  (client.status = "constructed" /\ ~config.isNull) =>
    /\ config.sandbox => env.FREEAGENT_SANDBOX = "true"
    /\ env.FREEAGENT_SANDBOX = Unset =>
         /\ ~config.sandbox
         /\ Host(getApiBase(config.sandbox)) = "api.freeagent.com"
         /\ Falsy(env.FREEAGENT_BASE_URL) =>
              Host(client.baseUrl) = "api.freeagent.com"

====
